---- MODULE Spec2Model ----
(***************************************************************************)
(* A model of the TikTok ad-campaign agent: the field validators, the      *)
(* music requirement, the validation aggregator and the strict payload     *)
(* model (src/src/validators.py), the mock and the real Ads API            *)
(* (src/src/tiktok_api.py, src/src/tiktok_real_api.py), and the            *)
(* conversation orchestrator (src/src/agent.py) as driven by the command   *)
(* loop (src/src/main.py).                                                 *)
(*                                                                         *)
(* Python strings are TLA+ strings (Len, \o and SubSeq act on them).       *)
(* Python's None is the token None, which no string of the model equals.   *)
(* Emoji of the messages are left out; the rest of each text is kept.      *)
(***************************************************************************)
EXTENDS Integers, Sequences, FiniteSets, TLC

VARIABLES
    stage,                  \* AdCampaignState.stage
    campaign_name,          \* AdCampaignState.campaign_name
    objective,              \* AdCampaignState.objective
    ad_text,                \* AdCampaignState.ad_text
    cta,                    \* AdCampaignState.cta
    music_id,               \* AdCampaignState.music_id
    conversation_history,   \* AdCampaignState.conversation_history
    request_count,          \* TikTokAPI.request_count
    last_request_time,      \* TikTokAPI.last_request_time
    now,                    \* time.time(), whole seconds
    mock_mode,              \* settings.tiktok_mock_mode
    last,                   \* what the last operation was given and did
    validated,              \* music ids a validate_music or upload call accepted
    created,                \* whether a create-campaign call has succeeded
    accepted_at,            \* the times at which the mock API let a request pass
    v_in,                   \* the arguments of a validator call
    v_out                   \* the value that call returned

vars == <<stage, campaign_name, objective, ad_text, cta, music_id,
          conversation_history, request_count, last_request_time, now,
          mock_mode, last, validated, created, accepted_at, v_in, v_out>>

agentVars == <<stage, campaign_name, objective, ad_text, cta, music_id,
               conversation_history>>
apiVars == <<request_count, last_request_time>>
fieldVars == <<campaign_name, objective, ad_text, cta, music_id>>
pureVars == <<v_in, v_out>>

-----------------------------------------------------------------------------
(* Python values *)

None == "<None>"

\* `not v` of an Optional[str]
Falsy(v) == v = None \/ v = ""

\* str(v) inside an f-string
Str(v) == IF v = None THEN "None" ELSE v

\* v or d
OrElse(v, d) == IF Falsy(v) THEN d ELSE v

IsSpace(c) == c \in {" ", "\t", "\n"}

RECURSIVE LStrip(_)
LStrip(s) ==
    IF Len(s) > 0 /\ IsSpace(SubSeq(s, 1, 1))
    THEN LStrip(SubSeq(s, 2, Len(s)))
    ELSE s

RECURSIVE RStrip(_)
RStrip(s) ==
    IF Len(s) > 0 /\ IsSpace(SubSeq(s, Len(s), Len(s)))
    THEN RStrip(SubSeq(s, 1, Len(s) - 1))
    ELSE s

\* str.strip()
Strip(s) == RStrip(LStrip(s))

\* s[:n]
Prefix(s, n) == SubSeq(s, 1, IF Len(s) < n THEN Len(s) ELSE n)

\* w in s
Has(s, w) ==
    \E i \in 1..(Len(s) - Len(w) + 1) : SubSeq(s, i, i + Len(w) - 1) = w

\* c * n
RECURSIVE Rep(_, _)
Rep(c, n) == IF n = 0 THEN "" ELSE c \o Rep(c, n - 1)

\* sep.join(f(x) for x in xs), the items already rendered
RECURSIVE Join(_, _)
Join(sep, xs) ==
    IF Len(xs) = 0 THEN ""
    ELSE IF Len(xs) = 1 THEN xs[1]
    ELSE xs[1] \o sep \o Join(sep, Tail(xs))

-----------------------------------------------------------------------------
(* src/src/validators.py *)

\* min_length of campaign_name, and the bound of both name checks
NAME_MIN == 3
\* max_length of ad_text, and the bound of both ad-text checks
AD_TEXT_MAX == 100
\* the slice shown of a too-long ad text
AD_TEXT_SHOWN == 50

Result(ok, msg) == [is_valid |-> ok, msg |-> msg]

MusicRequiredMsg ==
    "Music is REQUIRED for Conversions campaigns.\n"
    \o "Conversions campaigns need engaging music to drive user action.\n\n"
    \o "You can:\n"
    \o "  1. Provide an existing TikTok Music ID\n"
    \o "  2. Upload custom music\n"

\* a variant that takes only an absent music_id, not an empty one, as missing
MusicMissing_NoneOnly(obj, mid) == obj = "Conversions" /\ mid = None

\* the condition under which the music requirement is unmet
MusicMissing(obj, mid) == obj = "Conversions" /\ Falsy(mid)

validate_music_for_objective(obj, mid) ==
    IF MusicMissing(obj, mid) THEN Result(FALSE, MusicRequiredMsg)
    ELSE IF obj = "Traffic" /\ Falsy(mid)
    THEN Result(TRUE, "No music is allowed for Traffic campaigns (optional)")
    ELSE Result(TRUE, "Music ID provided")

\* a variant that measures the name as typed, blanks around it included
validate_campaign_name_Raw(name) ==
    IF Falsy(name) THEN Result(FALSE, "Campaign name cannot be empty")
    ELSE IF Len(name) < NAME_MIN
    THEN Result(FALSE, "Campaign name must be at least 3 characters (current: "
                       \o ToString(Len(name)) \o ")")
    ELSE Result(TRUE, "Valid campaign name")

validate_campaign_name(name) ==
    IF Falsy(name) \/ Falsy(Strip(name))
    THEN Result(FALSE, "Campaign name cannot be empty")
    ELSE IF Len(Strip(name)) < NAME_MIN
    THEN Result(FALSE, "Campaign name must be at least 3 characters (current: "
                       \o ToString(Len(Strip(name))) \o ")")
    ELSE Result(TRUE, "Valid campaign name")

\* a variant of the list with a lower-case spelling
valid_objectives_AnyCase == <<"Traffic", "Conversions", "traffic">>

valid_objectives == <<"Traffic", "Conversions">>

validate_objective(obj) ==
    IF \A i \in 1..Len(valid_objectives) : valid_objectives[i] # obj
    THEN Result(FALSE, "Invalid objective: '" \o Str(obj) \o "'\n"
                       \o "Valid options: " \o Join(", ", valid_objectives))
    ELSE Result(TRUE, "Valid objective: " \o obj)

\* a variant that counts the overage from one character earlier
validate_ad_text_OffByOne(text) ==
    IF Falsy(text) \/ Falsy(Strip(text))
    THEN Result(FALSE, "Ad text cannot be empty")
    ELSE IF Len(text) >= AD_TEXT_MAX
    THEN Result(FALSE, "Ad text too long: " \o ToString(Len(text))
                       \o " characters (max: 100)\n"
                       \o "Current text: '" \o Prefix(text, AD_TEXT_SHOWN) \o "...'\n"
                       \o "Please shorten by " \o ToString(Len(text) - AD_TEXT_MAX + 1)
                       \o " characters")
    ELSE Result(TRUE, "Valid ad text (" \o ToString(Len(text)) \o " characters)")

validate_ad_text(text) ==
    IF Falsy(text) \/ Falsy(Strip(text))
    THEN Result(FALSE, "Ad text cannot be empty")
    ELSE IF Len(text) > AD_TEXT_MAX
    THEN Result(FALSE, "Ad text too long: " \o ToString(Len(text))
                       \o " characters (max: 100)\n"
                       \o "Current text: '" \o Prefix(text, AD_TEXT_SHOWN) \o "...'\n"
                       \o "Please shorten by " \o ToString(Len(text) - AD_TEXT_MAX)
                       \o " characters")
    ELSE Result(TRUE, "Valid ad text (" \o ToString(Len(text)) \o " characters)")

\* a variant that takes a CTA of blanks for a value
validate_cta_NoStrip(c) ==
    IF Falsy(c) THEN Result(FALSE, "CTA cannot be empty")
    ELSE Result(TRUE, "Valid CTA: " \o c)

validate_cta(c) ==
    IF Falsy(c) \/ Falsy(Strip(c))
    THEN Result(FALSE, "CTA cannot be empty")
    ELSE Result(TRUE, "Valid CTA: " \o c)

\* a variant that stops collecting after the first error
AppendIfInvalid_ShortCircuit(errors, r) ==
    IF r.is_valid \/ Len(errors) > 0 THEN errors ELSE Append(errors, r.msg)

\* is_valid, msg = check; if not is_valid: errors.append(msg)
AppendIfInvalid(errors, r) == IF r.is_valid THEN errors ELSE Append(errors, r.msg)

\* a variant that reports invalid only when every check failed
Verdict_AllFailed(errors) == [is_valid |-> Len(errors) < 5, errors |-> errors]

\* return len(errors) == 0, errors
Verdict(errors) == [is_valid |-> Len(errors) = 0, errors |-> errors]

validate_complete_campaign(name, obj, text, c, mid) ==
    LET e1 == AppendIfInvalid(<<>>, validate_campaign_name(name))
        e2 == AppendIfInvalid(e1, validate_objective(obj))
        e3 == AppendIfInvalid(e2, validate_ad_text(text))
        e4 == AppendIfInvalid(e3, validate_cta(c))
        e5 == AppendIfInvalid(e4, validate_music_for_objective(obj, mid))
    IN  Verdict(e5)

\* a variant of the payload without the music requirement
PayloadMusicMissing_Never(obj, v) == FALSE

\* values.get('objective') and the test of validate_music_requirement
PayloadMusicMissing(obj, v) == obj = "Conversions" /\ Falsy(v)

\* the errors pydantic collects for one construction of AdCampaignData, a
\* pair <<field, message>> per failing field, in field order
FieldErrors(name, obj, text, c, mid) ==
    LET strErr == "Input should be a valid string"
        nameErr ==
            IF name = None THEN strErr
            ELSE IF Len(name) < NAME_MIN
            THEN "String should have at least 3 characters"
            ELSE IF Len(Strip(name)) < NAME_MIN
            THEN "Value error, Campaign name must be at least 3 characters"
            ELSE ""
        objOk == obj \in {"Traffic", "Conversions"}
        objErr == IF objOk THEN "" ELSE "Input should be 'Traffic' or 'Conversions'"
        textErr ==
            IF text = None THEN strErr
            ELSE IF Len(text) > AD_TEXT_MAX
            THEN "String should have at most 100 characters"
            ELSE IF Falsy(Strip(text)) THEN "Value error, Ad text cannot be empty"
            ELSE ""
        ctaErr == IF c = None THEN strErr ELSE ""
        musicErr ==
            IF PayloadMusicMissing(IF objOk THEN obj ELSE None, mid)
            THEN "Value error, Music is REQUIRED for Conversions campaigns. "
                 \o "Please provide a Music ID or upload custom music."
            ELSE ""
        all == << <<"campaign_name", nameErr>>, <<"objective", objErr>>,
                  <<"ad_text", textErr>>, <<"cta", ctaErr>>,
                  <<"music_id", musicErr>> >>
    IN  SelectSeq(all, LAMBDA e : e[2] # "")

\* str(e) of the ValidationError
ValidationErrorText(errs) ==
    ToString(Len(errs)) \o " validation error"
    \o (IF Len(errs) = 1 THEN "" ELSE "s") \o " for AdCampaignData\n"
    \o Join("\n", [i \in 1..Len(errs) |-> errs[i][1] \o "\n  " \o errs[i][2]])

NoPayload ==
    [campaign_name |-> None, objective |-> None, ad_text |-> None,
     cta |-> None, music_id |-> None]

\* AdCampaignData(...) followed by campaign.dict()
AdCampaignData(name, obj, text, c, mid) ==
    LET errs == FieldErrors(name, obj, text, c, mid)
    IN  IF Len(errs) = 0
        THEN [ok |-> TRUE, error |-> "",
              payload |-> [campaign_name |-> Strip(name), objective |-> obj,
                           ad_text |-> Strip(text), cta |-> c, music_id |-> mid]]
        ELSE [ok |-> FALSE, error |-> ValidationErrorText(errs),
              payload |-> NoPayload]

-----------------------------------------------------------------------------
(* src/src/tiktok_api.py *)

\* max 10 requests per minute
RATE_LIMIT == 10
RATE_WINDOW == 60

VALID_MUSIC_IDS == {"MUS_12345", "MUS_67890", "MUS_11111", "MUSIC_99999"}

MusicLibrary(id) ==
    CASE id = "MUS_12345" ->
            [title |-> "Trending Beat 2024", artist |-> "DJ Fresh", duration |-> 30]
      [] id = "MUS_67890" ->
            [title |-> "Viral Dance Track", artist |-> "Sound Wave", duration |-> 25]
      [] id = "MUS_11111" ->
            [title |-> "Chill Vibes", artist |-> "Ambient Artists", duration |-> 45]
      [] OTHER ->
            [title |-> "Popular Song", artist |-> "Top Charts", duration |-> 35]

ERROR_SCENARIOS(code) ==
    CASE code = "invalid_music_id" ->
            [message |-> "Music ID does not exist in TikTok's music library",
             suggestion |-> "Please check the Music ID and try again, or choose from our music library"]
      [] code = "copyright_claim" ->
            [message |-> "This music has active copyright restrictions and cannot be used in ads",
             suggestion |-> "Choose royalty-free music or upload original content"]
      [] code = "geo_restricted" ->
            [message |-> "Music is not available in your target advertising region",
             suggestion |-> "Select music that's available globally or change your target region"]
      [] OTHER ->
            [message |-> "Music duration exceeds the maximum allowed for TikTok ads (60 seconds)",
             suggestion |-> "Choose a shorter track or trim your music to under 60 seconds"]

NoData == [none |-> "None"]

Success(data) ==
    [success |-> TRUE, data |-> data, error_code |-> None,
     error_message |-> None, suggestion |-> None]

Failure(code, message, suggestion) ==
    [success |-> FALSE, data |-> NoData, error_code |-> code,
     error_message |-> message, suggestion |-> suggestion]

\* a variant that counts on without ever opening a new window
CheckRateLimit_NoReset(count, lastt, t) ==
    IF count + 1 > RATE_LIMIT
    THEN [raised |-> TRUE, request_count |-> count + 1, last_request_time |-> lastt]
    ELSE [raised |-> FALSE, request_count |-> count + 1, last_request_time |-> lastt]

\* _check_rate_limit at time t: whether it raises, and the counters it leaves
CheckRateLimit(count, lastt, t) ==
    LET c1 == count + 1
    IN  IF t - lastt < RATE_WINDOW /\ c1 > RATE_LIMIT
        THEN [raised |-> TRUE, request_count |-> c1, last_request_time |-> lastt]
        ELSE IF t - lastt >= RATE_WINDOW
        THEN [raised |-> FALSE, request_count |-> 0, last_request_time |-> t]
        ELSE [raised |-> FALSE, request_count |-> c1, last_request_time |-> lastt]

\* the draws of random.random() and random.choice() in each operation
ValidateRolls == {"ok", "copyright_claim", "geo_restricted"}
UploadRolls == {"ok", "duration_invalid", "copyright_claim"}
SubmitRolls == {"ok", "validation_failed"}

\* a variant that reports an unregistered id under another code
MockValidateMusic_NotFound(id, roll) ==
    IF id \in VALID_MUSIC_IDS
    THEN Success([music_id |-> id, title |-> MusicLibrary(id).title,
                  artist |-> MusicLibrary(id).artist,
                  duration |-> MusicLibrary(id).duration,
                  status |-> "approved"])
    ELSE Failure("not_found", "Music ID '" \o id \o "' was not found",
                 "Please verify the Music ID or choose from our music catalog")

\* TikTokAPI.validate_music, after the rate-limit check passed
MockValidateMusic(id, roll) ==
    IF id \in VALID_MUSIC_IDS
    THEN IF roll = "ok"
         THEN Success([music_id |-> id, title |-> MusicLibrary(id).title,
                       artist |-> MusicLibrary(id).artist,
                       duration |-> MusicLibrary(id).duration,
                       status |-> "approved"])
         ELSE Failure(roll, ERROR_SCENARIOS(roll).message,
                      ERROR_SCENARIOS(roll).suggestion)
    ELSE Failure("invalid_music_id",
                 "Music ID '" \o id \o "' does not exist in TikTok's music library",
                 "Please verify the Music ID or choose from our music catalog")

\* TikTokAPI.simulate_music_upload, after the rate-limit check passed
MockMusicUpload(file_name, roll, n) ==
    IF roll = "ok"
    THEN Success([music_id |-> "MUS_CUSTOM_" \o ToString(n),
                  file_name |-> file_name, status |-> "processing",
                  message |-> "Music uploaded successfully. Processing may take 1-2 minutes."])
    ELSE Failure(roll, ERROR_SCENARIOS(roll).message,
                 ERROR_SCENARIOS(roll).suggestion)

\* TikTokAPI.submit_campaign, after the rate-limit check passed
MockSubmitCampaign(payload, roll, n) ==
    IF roll = "ok"
    THEN Success([campaign_id |-> "CAMP_" \o ToString(n),
                  campaign_name |-> payload.campaign_name, status |-> "active",
                  message |-> "Campaign created successfully!",
                  dashboard_url |-> "https://ads.tiktok.com/campaigns/CAMP_" \o ToString(n)])
    ELSE Failure("validation_failed",
                 "Campaign validation failed. Please review your inputs.",
                 "Check all required fields and try again")

interpret_api_error(response) ==
    IF response.success THEN "Success - no errors"
    ELSE CASE response.error_code = "invalid_music_id" ->
                "The Music ID you provided doesn't exist in TikTok's library.\n\n"
                \o "This could mean:\n"
                \o "  - The ID was typed incorrectly\n"
                \o "  - The music was removed from TikTok's library\n"
                \o "  - The ID is from a different platform\n\n"
                \o Str(response.suggestion)
           [] response.error_code = "copyright_claim" ->
                "Copyright Issue Detected\n\n"
                \o "This music has copyright restrictions and cannot be used in advertisements.\n"
                \o "Using copyrighted music without permission can result in your ad being rejected.\n\n"
                \o Str(response.suggestion)
           [] response.error_code = "geo_restricted" ->
                "Geographic Restriction\n\n"
                \o "This music is not available in all regions where you're targeting your ads.\n"
                \o "TikTok requires music to be licensed in all target markets.\n\n"
                \o Str(response.suggestion)
           [] response.error_code = "duration_invalid" ->
                "Music Duration Issue\n\n"
                \o "TikTok ads have a maximum music duration of 60 seconds.\n"
                \o "Longer tracks may cause playback issues.\n\n"
                \o Str(response.suggestion)
           [] response.error_code = "rate_limit_exceeded" ->
                "Too Many Requests\n\n"
                \o "You've exceeded the API rate limit.\n"
                \o "This is a temporary restriction to prevent system overload.\n\n"
                \o Str(response.suggestion)
           [] OTHER ->
                "Error: " \o Str(response.error_message) \o "\n\n"
                \o Str(response.suggestion)

-----------------------------------------------------------------------------
(* src/src/tiktok_real_api.py *)

\* the shortest music id the format check accepts
REAL_MUSIC_ID_MIN == 5

\* what the POST of create_campaign can come to: code 0, one of the mapped
\* error codes, another code, or an exception of the transport
RealCreateRolls ==
    {"ok", "40001", "40002", "40100", "50000", "40105",
     "timeout", "network_error", "unexpected_error"}

\* the message the server sends with an error code
ServerMessage == "Request rejected"

RealResult(ok, data, error, message, suggestion) ==
    [success |-> ok, data |-> data, error |-> error, message |-> message,
     suggestion |-> suggestion]

\* TikTokRealAPI.validate_music
RealValidateMusic(id) ==
    IF Falsy(id) \/ Len(id) < REAL_MUSIC_ID_MIN
    THEN RealResult(FALSE, NoData, "invalid_format", "Invalid music ID format",
                    "Provide valid TikTok Music ID (e.g., MUS_12345)")
    ELSE RealResult(TRUE,
                    [music_id |-> id, status |-> "format_valid",
                     message |-> "Music ID format validated. Will verify during campaign creation."],
                    None, None, None)

\* TikTokRealAPI._handle_api_error
HandleApiError(error_code, error_message) ==
    CASE error_code = "40001" ->
            RealResult(FALSE, NoData, "authentication_failed",
                       "Invalid or expired access token: " \o error_message,
                       "Re-authenticate using OAuth flow")
      [] error_code = "40002" ->
            RealResult(FALSE, NoData, "invalid_advertiser",
                       "Invalid advertiser ID: " \o error_message,
                       "Verify advertiser_id in configuration")
      [] error_code = "40100" ->
            RealResult(FALSE, NoData, "validation_error",
                       "Request validation failed: " \o error_message,
                       "Check all required fields are provided")
      [] error_code = "50000" ->
            RealResult(FALSE, NoData, "server_error",
                       "TikTok server error: " \o error_message,
                       "Retry after a few minutes")
      [] OTHER ->
            RealResult(FALSE, NoData, "api_error",
                       "TikTok API Error (" \o error_code \o "): " \o error_message,
                       "Check TikTok API documentation for error details")

\* TikTokRealAPI.create_campaign
RealCreateCampaign(payload, roll, n) ==
    CASE roll = "ok" ->
            RealResult(TRUE,
                       [campaign_id |-> ToString(n),
                        campaign_name |-> payload.campaign_name,
                        status |-> "active",
                        message |-> "Campaign created successfully on TikTok!",
                        dashboard_url |-> "https://ads.tiktok.com/i18n/campaign/" \o ToString(n)],
                       None, None, None)
      [] roll = "timeout" ->
            RealResult(FALSE, NoData, "timeout",
                       "Request timed out. Please try again.",
                       "Check your internet connection and retry.")
      [] roll = "network_error" ->
            RealResult(FALSE, NoData, "network_error",
                       "Network error: connection failed",
                       "Verify VPN connection if using proxy.")
      [] roll = "unexpected_error" ->
            RealResult(FALSE, NoData, "unexpected_error",
                       "Unexpected error: 'data'", "Check logs for details.")
      [] OTHER -> HandleApiError(roll, ServerMessage)

-----------------------------------------------------------------------------
(* src/src/state.py and src/src/agent.py *)

GREETING == "greeting"
FINALIZING == "finalizing"
SUBMITTING == "submitting"
COMPLETE == "complete"

\* one call of an Ads API operation: its argument, how it ended ("ok" or the
\* error code), and the message and suggestion of an error result
Call(op, id, payload, result, message, suggestion) ==
    [op |-> op, music_id |-> id, payload |-> payload, result |-> result,
     message |-> message, suggestion |-> suggestion]

RateLimitMessage == "Too many requests. Rate limit: 10 requests per minute"
RateLimitSuggestion == "Please wait before making more requests"

\* a handler returned `reply`
Done(st, reply, calls) ==
    [reply |-> reply, raised |-> "", stage |-> st.stage, music_id |-> st.music_id,
     request_count |-> st.request_count,
     last_request_time |-> st.last_request_time, calls |-> calls]

\* a handler raised `exc`
Raise(st, exc, calls) ==
    [reply |-> None, raised |-> exc, stage |-> st.stage, music_id |-> st.music_id,
     request_count |-> st.request_count,
     last_request_time |-> st.last_request_time, calls |-> calls]

\* the counters of the mock API after its rate-limit check
Counted(st, rl) ==
    [st EXCEPT !.request_count = rl.request_count,
               !.last_request_time = rl.last_request_time]

RephraseMsg == "I apologize, I had trouble processing that. Could you please rephrase?"

\* the two fallback responses of _call_llm, and the parsed JSON otherwise
EmptyData ==
    [shape |-> "dict", campaign_name |-> None, objective |-> None,
     ad_text |-> None, cta |-> None, music_id |-> None]

\* a variant of the fallback that routes the turn to the finalize handler
ParseFallback_Finalize ==
    [kind |-> "object", message |-> RephraseMsg, action |-> "finalize",
     data |-> EmptyData]

ParseFallback ==
    [kind |-> "object", message |-> RephraseMsg, action |-> "error",
     data |-> EmptyData]

CallFallback ==
    [kind |-> "object", message |-> "I encountered an error. Let's try again.",
     action |-> "error", data |-> EmptyData]

call_llm(resp) ==
    CASE resp.kind = "non_json" -> ParseFallback
      [] resp.kind = "llm_error" -> CallFallback
      [] OTHER -> resp

\* one assignment of _update_state_from_data
\* a variant that keeps the value a field already has
Merged_FirstWins(old, new) == IF Falsy(old) THEN new ELSE old

Merged(old, new) == IF Falsy(new) THEN old ELSE new

update_state_from_data(st, data) ==
    [st EXCEPT !.campaign_name = Merged(st.campaign_name, data.campaign_name),
               !.objective = Merged(st.objective, data.objective),
               !.ad_text = Merged(st.ad_text, data.ad_text),
               !.cta = Merged(st.cta, data.cta),
               !.music_id = Merged(st.music_id, data.music_id)]

ValidationReply(response) ==
    IF response.success
    THEN "Music validated successfully!\n\n"
         \o "**" \o response.data.title \o "** by " \o response.data.artist \o "\n"
         \o "   Duration: " \o ToString(response.data.duration) \o " seconds\n"
         \o "   Status: " \o response.data.status \o "\n\n"
         \o "Great choice! Ready to proceed with campaign creation?"
    ELSE interpret_api_error(response) \o "\n\n"
         \o "What would you like to do?\n"
         \o "1. Try a different Music ID\n"
         \o "2. Upload custom music\n"
         \o "3. Proceed without music (only if Traffic campaign)"

\* the mock branch of _handle_music_validation: `rl` is what the rate-limit
\* check of validate_music did, `response` what the call returns past it
ValidateMock(st, rl, response) ==
    IF rl.raised
    THEN Raise(Counted(st, rl), "TikTokAPIError",
               <<Call("validate_music", st.music_id, NoPayload,
                      "rate_limit_exceeded", RateLimitMessage,
                      RateLimitSuggestion)>>)
    ELSE Done(Counted(st, rl), ValidationReply(response),
              <<Call("validate_music", st.music_id, NoPayload,
                     IF response.success THEN "ok" ELSE response.error_code,
                     response.error_message, response.suggestion)>>)

\* the same lines on the real client: it returns a pair, which has no
\* attribute `success`
ValidateReal(st, response) ==
    Raise(st, "AttributeError",
          <<Call("validate_music", st.music_id, NoPayload,
                 IF response.success THEN "ok" ELSE response.error,
                 response.message, response.suggestion)>>)

handle_music_validation(st, t, mock, roll) ==
    IF Falsy(st.music_id)
    THEN Done(st, "No music ID provided to validate.", <<>>)
    ELSE IF mock
    THEN ValidateMock(st,
                      CheckRateLimit(st.request_count, st.last_request_time, t),
                      MockValidateMusic(st.music_id, roll))
    ELSE ValidateReal(st, RealValidateMusic(st.music_id))

\* a variant of the reply that shows the first error only
FinalizeErrors_First(errors) ==
    "Cannot proceed - some fields are invalid:\n\n"
    \o "  - " \o errors[1] \o "\n\n"
    \o "Please provide the missing information."

\* the reply of a finalize whose state the aggregator found invalid
FinalizeErrors(errors) ==
    "Cannot proceed - some fields are invalid:\n\n"
    \o Join("\n", [i \in 1..Len(errors) |-> "  - " \o errors[i]]) \o "\n\n"
    \o "Please provide the missing information."

Summary(st) ==
    "**Campaign Summary**\n\n"
    \o "**Campaign Name:** " \o Str(st.campaign_name) \o "\n"
    \o "**Objective:** " \o Str(st.objective) \o "\n"
    \o "**Ad Text:** \"" \o Str(st.ad_text) \o "\"\n"
    \o "**CTA:** " \o Str(st.cta) \o "\n"
    \o "**Music:** " \o (IF Falsy(st.music_id) THEN "No music" ELSE st.music_id) \o "\n\n"
    \o "Everything look good? \n\n"
    \o "Reply with:\n"
    \o "  - \"yes\" or \"submit\" to create the campaign\n"
    \o "  - \"change [field]\" to modify something\n"
    \o "  - \"cancel\" to start over\n"

\* a variant that judges the music against the objective Traffic, as it
\* was when the music question was first settled
handle_finalization_AsTraffic(st) ==
    LET v == validate_complete_campaign(
                 OrElse(st.campaign_name, ""), "Traffic",
                 OrElse(st.ad_text, ""), OrElse(st.cta, ""), st.music_id)
    IN  IF ~v.is_valid
        THEN Done(st, FinalizeErrors(v.errors), <<>>)
        ELSE Done(st, Summary(st), <<>>)

handle_finalization(st) ==
    LET v == validate_complete_campaign(
                 OrElse(st.campaign_name, ""), OrElse(st.objective, "Traffic"),
                 OrElse(st.ad_text, ""), OrElse(st.cta, ""), st.music_id)
    IN  IF ~v.is_valid
        THEN Done(st, FinalizeErrors(v.errors), <<>>)
        ELSE Done(st, Summary(st), <<>>)

\* a variant that marks the conversation complete whatever the API said
StageAfterCreate_Always(success, old) == COMPLETE

\* self.state.stage after create-campaign returned
StageAfterCreate(success, old) == IF success THEN COMPLETE ELSE old

MockCreatedReply(d) ==
    "**Campaign Created! (Mock Mode)**\n\n"
    \o "**Campaign ID:** " \o d.campaign_id \o "\n"
    \o "**Name:** " \o d.campaign_name \o "\n"
    \o "**Status:** " \o d.status \o "\n\n"
    \o "Dashboard: " \o d.dashboard_url \o "\n\n"
    \o "**Note:** This is simulated. To create real campaigns:\n"
    \o "    1. Add TikTok credentials to .env\n"
    \o "    2. Set TIKTOK_MOCK_MODE=false\n"
    \o "    3. Restart the agent\n\n"
    \o "Create another? Type \"new campaign\"!\n"

RealCreatedReply(d) ==
    "**REAL Campaign Created on TikTok!**\n\n"
    \o "**Campaign ID:** " \o d.campaign_id \o "\n"
    \o "**Name:** " \o d.campaign_name \o "\n"
    \o "**Status:** " \o d.status \o "\n\n"
    \o d.message \o "\n\n"
    \o "TikTok Ads Manager: " \o d.dashboard_url \o "\n\n"
    \o "This is a REAL campaign on TikTok!\n\n"
    \o "**Next Steps:**\n"
    \o "1. Visit TikTok Ads Manager\n"
    \o "2. Complete ad group and creative setup\n"
    \o "3. Set budget and schedule\n"
    \o "4. Launch campaign!\n\n"
    \o "Create another? Type \"new campaign\"!\n"

RealFailedReply(r) ==
    "**Campaign Creation Failed**\n\n"
    \o r.message \o "\n\n"
    \o "**Suggestion:** " \o r.suggestion \o "\n\n"
    \o "**What to check:**\n"
    \o "1. Access token is valid\n"
    \o "2. Advertiser ID is correct\n"
    \o "3. API permissions granted\n"
    \o "4. Network connection stable\n\n"
    \o "Type \"retry\" to try again.\n"

\* what _handle_submission returns when the mock API reports a failure: the
\* branch has no return statement, so the method returns None
MockFailedReply(response) == None

\* the mock branch of _handle_submission: `rl` is what the rate-limit check
\* of submit_campaign did, `response` what the call returns past it
SubmitMock(st, payload, rl, response) ==
    IF rl.raised
    THEN Raise(Counted(st, rl), "TikTokAPIError",
               <<Call("create_campaign", payload.music_id, payload,
                      "rate_limit_exceeded", RateLimitMessage,
                      RateLimitSuggestion)>>)
    ELSE [Done(Counted(st, rl),
               IF response.success THEN MockCreatedReply(response.data)
               ELSE MockFailedReply(response),
               <<Call("create_campaign", payload.music_id, payload,
                      IF response.success THEN "ok" ELSE response.error_code,
                      response.error_message, response.suggestion)>>)
          EXCEPT !.stage = StageAfterCreate(response.success, st.stage)]

\* the real branch of _handle_submission: `r` is what create_campaign returns
SubmitReal(st, payload, r) ==
    [Done(st,
          IF r.success THEN RealCreatedReply(r.data) ELSE RealFailedReply(r),
          <<Call("create_campaign", payload.music_id, payload,
                 IF r.success THEN "ok" ELSE r.error, r.message, r.suggestion)>>)
     EXCEPT !.stage = StageAfterCreate(r.success, st.stage)]

\* _handle_submission from the construction of the payload on
SubmitPayload(st, campaign, t, mock, roll, n) ==
    IF ~campaign.ok
    THEN Done(st, "Validation error: " \o campaign.error, <<>>)
    ELSE IF mock
    THEN SubmitMock(st, campaign.payload,
                    CheckRateLimit(st.request_count, st.last_request_time, t),
                    MockSubmitCampaign(campaign.payload, roll, n))
    ELSE SubmitReal(st, campaign.payload,
                    RealCreateCampaign(campaign.payload, roll, n))

handle_submission(st, t, mock, roll, n) ==
    SubmitPayload(st,
                  AdCampaignData(st.campaign_name, st.objective, st.ad_text,
                                 st.cta, st.music_id),
                  t, mock, roll, n)

UploadedReply(file_name, d) ==
    "Music uploaded successfully!\n\n"
    \o "File: " \o file_name \o "\n"
    \o "   Music ID: " \o d.music_id \o "\n"
    \o "   Status: " \o d.status \o "\n\n"
    \o d.message \o "\n\n"
    \o "Your music will be ready shortly. Ready to proceed?"

UploadFailedReply(response) ==
    interpret_api_error(response) \o "\n\n"
    \o "Would you like to:\n"
    \o "1. Try uploading a different file\n"
    \o "2. Use an existing Music ID instead"

\* a variant that reports the upload and does not keep its music id
UploadMock_Forgets(st, file_name, rl, response) ==
    IF rl.raised
    THEN Raise(Counted(st, rl), "TikTokAPIError",
               <<Call("upload_music", None, NoPayload, "rate_limit_exceeded",
                      RateLimitMessage, RateLimitSuggestion)>>)
    ELSE IF response.success
    THEN Done(Counted(st, rl), UploadedReply(file_name, response.data),
              <<Call("upload_music", response.data.music_id, NoPayload,
                     "ok", None, None)>>)
    ELSE Done(Counted(st, rl), UploadFailedReply(response),
              <<Call("upload_music", None, NoPayload, response.error_code,
                     response.error_message, response.suggestion)>>)

\* handle_music_upload on the mock client: `rl` is what the rate-limit check
\* of simulate_music_upload did, `response` what the call returns past it
UploadMock(st, file_name, rl, response) ==
    IF rl.raised
    THEN Raise(Counted(st, rl), "TikTokAPIError",
               <<Call("upload_music", None, NoPayload, "rate_limit_exceeded",
                      RateLimitMessage, RateLimitSuggestion)>>)
    ELSE IF response.success
    THEN [Done(Counted(st, rl), UploadedReply(file_name, response.data),
               <<Call("upload_music", response.data.music_id, NoPayload,
                      "ok", None, None)>>)
          EXCEPT !.music_id = response.data.music_id]
    ELSE Done(Counted(st, rl), UploadFailedReply(response),
              <<Call("upload_music", None, NoPayload, response.error_code,
                     response.error_message, response.suggestion)>>)

handle_music_upload(st, t, mock, file_name, roll, n) ==
    IF mock
    THEN UploadMock(st, file_name,
                    CheckRateLimit(st.request_count, st.last_request_time, t),
                    MockMusicUpload(file_name, roll, n))
    ELSE \* TikTokRealAPI has no method simulate_music_upload
         Raise(st, "AttributeError", <<>>)

Entry(role, content) == [role |-> role, content |-> content]

\* the five campaign fields of a state
FieldsOf(st) ==
    [campaign_name |-> st.campaign_name, objective |-> st.objective,
     ad_text |-> st.ad_text, cta |-> st.cta, music_id |-> st.music_id]

\* the handler process_message dispatches an action to
HandlerOf(action) ==
    IF action \in {"validate_music", "finalize", "submit"} THEN action ELSE "none"

\* llm_response.get("data", {})
DataOf(parsed) == IF parsed.data.shape = "missing" THEN EmptyData ELSE parsed.data

\* what a turn that raised before any handler ran is seen to have done
Seen(st, kind, action) ==
    [op |-> "process_message", llm |-> kind, action |-> action,
     handler |-> "none", reply |-> None, raised |-> "AttributeError",
     calls |-> <<>>, before |-> st.stage, merged |-> FieldsOf(st)]

\* the if/elif chain of process_message on the action
Dispatch(st1, action, message, t, mock, roll, n) ==
    CASE HandlerOf(action) = "validate_music" ->
            handle_music_validation(st1, t, mock, roll)
      [] HandlerOf(action) = "finalize" -> handle_finalization(st1)
      [] HandlerOf(action) = "submit" -> handle_submission(st1, t, mock, roll, n)
      [] OTHER -> Done(st1, message, <<>>)

\* the end of process_message: the exception of the handler propagates, or
\* its reply is appended to the history and returned
Conclude(st0, st1, kind, action, out) ==
    LET st2 == [st1 EXCEPT !.stage = out.stage, !.music_id = out.music_id,
                           !.request_count = out.request_count,
                           !.last_request_time = out.last_request_time]
        seen == [Seen(st0, kind, action)
                    EXCEPT !.handler = HandlerOf(action), !.raised = out.raised,
                           !.calls = out.calls, !.merged = FieldsOf(st1)]
    IN  IF out.raised # ""
        THEN [state |-> st2, last |-> seen]
        ELSE [state |-> [st2 EXCEPT !.conversation_history =
                                        Append(st1.conversation_history,
                                               Entry("assistant", out.reply))],
              last |-> [seen EXCEPT !.reply = out.reply]]

\* process_message from the merge of the data on: st0 is the state with the
\* user's message appended, st1 the state after _update_state_from_data
Handle(st0, st1, kind, parsed, t, mock, roll, n) ==
    Conclude(st0, st1, kind, parsed.action,
             Dispatch(st1, parsed.action, parsed.message, t, mock, roll, n))

\* process_message from the classifier's answer on
Respond(st0, kind, parsed, t, mock, roll, n) ==
    IF parsed.kind = "non_object"
    THEN \* llm_response.get: a list, string or number has no `get`
         [state |-> st0, last |-> Seen(st0, kind, "")]
    ELSE IF parsed.data.shape = "null"
    THEN \* data.get in _update_state_from_data: None has no `get`
         [state |-> st0, last |-> Seen(st0, kind, parsed.action)]
    ELSE Handle(st0, update_state_from_data(st0, DataOf(parsed)), kind, parsed,
                t, mock, roll, n)

\* process_message: the agent's state after the turn, and what the turn did
process_message(st, t, mock, user_message, resp, roll, n) ==
    Respond([st EXCEPT !.conversation_history =
                           Append(st.conversation_history,
                                  Entry("user", user_message))],
            resp.kind, call_llm(resp), t, mock, roll, n)

-----------------------------------------------------------------------------
(* Bounds and inputs *)

\* entries conversation_history may hold before the turns stop
MaxHistory == 4
\* requests the mock API may count before the calls stop
MaxRequests == 1
\* the clock: its first reading, the step of a tick and the number of ticks
StartTime == 1000
TickStep == 30
MaxTicks == 2
\* distinct ids random.randint may give an upload or a campaign
MaxNewIds == 1
\* flawed fields a whole campaign of one classifier response may hold
MaxFlaws == 1
\* the least number randint gives an upload and a campaign
CUSTOM_ID_MIN == 10000
CAMPAIGN_ID_MIN == 100000

UserMessages == {"hello"}
FileNames == {"song.mp3"}

GoodNames == {"Summer Sale"}
BadNames == {"Hi"}
GoodObjectives == {"Traffic", "Conversions"}
BadObjectives == {"Sales"}
GoodAdTexts == {"Get 50% off!"}
BadAdTexts == {Rep("a", AD_TEXT_MAX + 1)}
DataNames == {None} \cup GoodNames \cup BadNames
DataObjectives == {None} \cup GoodObjectives \cup BadObjectives
DataAdTexts == {None} \cup GoodAdTexts \cup BadAdTexts
DataCtas == {None, "Shop Now"}
DataMusicIds == {None, "MUS_12345", "MUS_00000"}

DataFields == {"campaign_name", "objective", "ad_text", "cta", "music_id"}

NumSet(d) == Cardinality({f \in DataFields : d[f] # None})

\* the fields of a whole campaign that could not be submitted as they are
Flaws(d) ==
    Cardinality({f \in {"campaign_name", "objective", "ad_text"} :
                    d[f] \in BadNames \cup BadObjectives \cup BadAdTexts}
                \cup {f \in {"cta"} : d[f] = None})

\* the data of one classifier response: nothing, one field, or a whole
\* campaign (name, objective and ad text at once) with at most MaxFlaws flaws
LLMData ==
    {d \in [shape : {"dict"}, campaign_name : DataNames,
            objective : DataObjectives, ad_text : DataAdTexts, cta : DataCtas,
            music_id : DataMusicIds] :
        \/ NumSet(d) <= 1
        \/ /\ d.campaign_name # None /\ d.objective # None /\ d.ad_text # None
           /\ Flaws(d) <= MaxFlaws}

LLMMessage == "Got it! What would you like to do next?"

Actions == {"collect_name", "validate_music", "finalize", "submit"}

\* what the classifier can answer: text that is no JSON, a failed call, JSON
\* that is no object, and objects whose data is a dict, null or absent
LLMResponses ==
    {[kind |-> k, message |-> "", action |-> "", data |-> EmptyData] :
        k \in {"non_json", "llm_error", "non_object"}}
    \cup {[kind |-> "object", message |-> LLMMessage, action |-> a, data |-> d] :
            a \in Actions, d \in LLMData}
    \cup {[kind |-> "object", message |-> LLMMessage, action |-> "collect_name",
           data |-> [EmptyData EXCEPT !.shape = sh]] : sh \in {"null", "missing"}}

NewIds(least) == least..(least + MaxNewIds - 1)

\* the draws that can matter to the handler of `action`
RollsOf(action, mock) ==
    CASE action = "validate_music" /\ mock -> ValidateRolls
      [] action = "submit" /\ mock -> SubmitRolls
      [] action = "submit" /\ ~mock -> RealCreateRolls
      [] OTHER -> {"ok"}

-----------------------------------------------------------------------------
(* The state machine *)

NoArgs == NoPayload
NoCall ==
    [fn |-> "", is_valid |-> FALSE, msg |-> "", errors |-> <<>>,
     value |-> NoPayload]

\* `last` tells what the last operation was: the kind of classifier output
\* and the action it was given, the handler that ran, what it returned or
\* raised, the Ads API calls it made, the stage before it, and the campaign
\* fields after the merge of the classifier's data and before the handler
Idle ==
    [op |-> "init", llm |-> "", action |-> "", handler |-> "", reply |-> None,
     raised |-> "", calls |-> <<>>, before |-> GREETING, merged |-> NoPayload]

\* AdCampaignState() and TikTokAPI()
Fresh ==
    [stage |-> GREETING, campaign_name |-> None, objective |-> None,
     ad_text |-> None, cta |-> None, music_id |-> None,
     conversation_history |-> <<>>, request_count |-> 0,
     last_request_time |-> 0]

Init ==
    /\ stage = Fresh.stage
    /\ campaign_name = Fresh.campaign_name
    /\ objective = Fresh.objective
    /\ ad_text = Fresh.ad_text
    /\ cta = Fresh.cta
    /\ music_id = Fresh.music_id
    /\ conversation_history = Fresh.conversation_history
    /\ request_count = Fresh.request_count
    /\ last_request_time = Fresh.last_request_time
    /\ now = StartTime
    /\ mock_mode \in BOOLEAN
    /\ last = Idle
    /\ validated = {}
    /\ created = FALSE
    /\ accepted_at = <<>>
    /\ v_in = NoArgs
    /\ v_out = NoCall

St ==
    [stage |-> stage, campaign_name |-> campaign_name, objective |-> objective,
     ad_text |-> ad_text, cta |-> cta, music_id |-> music_id,
     conversation_history |-> conversation_history,
     request_count |-> request_count, last_request_time |-> last_request_time]

\* the ids the calls of one operation had accepted
Accepted(calls) ==
    {calls[i].music_id : i \in {j \in 1..Len(calls) :
        calls[j].op \in {"validate_music", "upload_music"} /\ calls[j].result = "ok"}}

CreatedBy(calls) ==
    \E i \in 1..Len(calls) : calls[i].op = "create_campaign" /\ calls[i].result = "ok"

\* the time t once for every call of `calls` that _check_rate_limit of the
\* mock API let pass (the real client keeps no count)
PassedAt(calls, mock, t) ==
    [i \in 1..Len(SelectSeq(calls, LAMBDA c :
                        mock /\ c.result # "rate_limit_exceeded")) |-> t]

Install(st) ==
    /\ stage' = st.stage
    /\ campaign_name' = st.campaign_name
    /\ objective' = st.objective
    /\ ad_text' = st.ad_text
    /\ cta' = st.cta
    /\ music_id' = st.music_id
    /\ conversation_history' = st.conversation_history
    /\ request_count' = st.request_count
    /\ last_request_time' = st.last_request_time

\* the agent and the record of the conversation after a turn that came to r
AfterTurn(r) ==
    /\ Install(r.state)
    /\ last' = r.last
    /\ validated' = validated \cup Accepted(r.last.calls)
    /\ created' = (created \/ CreatedBy(r.last.calls))
    /\ accepted_at' = accepted_at \o PassedAt(r.last.calls, mock_mode, now)

\* agent.process_message(user_message) when the classifier answers resp
TurnWith(user_message, resp) ==
    \E roll \in RollsOf(call_llm(resp).action, mock_mode),
       n \in NewIds(CAMPAIGN_ID_MIN) :
        AfterTurn(process_message(St, now, mock_mode, user_message, resp,
                                  roll, n))

\* main: one line of the user handed to agent.process_message, the
\* user typing one of `messages`, the classifier answering with one of
\* `responses`
TurnOf(messages, responses, maxRequests) ==
    /\ Len(conversation_history) + 2 <= MaxHistory
    /\ request_count < maxRequests
    /\ \E user_message \in messages, resp \in responses :
         TurnWith(user_message, resp)
    /\ UNCHANGED <<now, mock_mode, v_in, v_out>>

Turn == TurnOf(UserMessages, LLMResponses, MaxRequests)

\* the agent and the record of the conversation after an upload that came
\* to out
AfterUpload(out) ==
    /\ music_id' = out.music_id
    /\ request_count' = out.request_count
    /\ last_request_time' = out.last_request_time
    /\ last' = [op |-> "handle_music_upload", llm |-> "", action |-> "",
                handler |-> "upload", reply |-> out.reply,
                raised |-> out.raised, calls |-> out.calls,
                before |-> stage, merged |-> FieldsOf(St)]
    /\ validated' = validated \cup Accepted(out.calls)
    /\ accepted_at' = accepted_at \o PassedAt(out.calls, mock_mode, now)

\* main: "upload <file>" handed to agent.handle_music_upload
UploadUpTo(maxRequests) ==
    /\ request_count < maxRequests
    /\ \E file_name \in FileNames, n \in NewIds(CUSTOM_ID_MIN) :
         \E roll \in (IF mock_mode THEN UploadRolls ELSE {"ok"}) :
            AfterUpload(handle_music_upload(St, now, mock_mode, file_name,
                                            roll, n))
    /\ UNCHANGED <<stage, campaign_name, objective, ad_text, cta,
                   conversation_history, now, mock_mode, created, v_in, v_out>>

Upload == UploadUpTo(MaxRequests)

\* main: "restart" builds a new agent, with a new state and a new API client
Restart ==
    /\ last.op # "init"
    /\ Install(Fresh)
    /\ last' = [Idle EXCEPT !.op = "restart", !.before = stage]
    /\ validated' = {}
    /\ created' = FALSE
    /\ accepted_at' = <<>>
    /\ UNCHANGED <<now, mock_mode, v_in, v_out>>

\* time passes between two lines of the user
Tick ==
    /\ now < StartTime + MaxTicks * TickStep
    /\ now' = now + TickStep
    /\ UNCHANGED <<agentVars, apiVars, mock_mode, last, validated, created,
                   accepted_at, v_in, v_out>>

Next == Turn \/ Upload \/ Restart

Spec == Init /\ [][Next]_vars

\* the conversation with the clock running
SpecTimed == Init /\ [][Next \/ Tick]_vars

-----------------------------------------------------------------------------
(* A conversation with many uploads, long enough for the mock API to count
   more than RATE_LIMIT requests *)

\* requests the mock API may count before the calls stop
MaxBusyRequests == 11

\* the classifier's answers of this conversation: a whole campaign with a
\* music id of the library, to validate or to submit
BusyResponses ==
    {[kind |-> "object", message |-> LLMMessage, action |-> a,
      data |-> [shape |-> "dict", campaign_name |-> "Summer Sale",
                objective |-> "Conversions", ad_text |-> "Get 50% off!",
                cta |-> "Shop Now", music_id |-> "MUS_12345"]] :
        a \in {"validate_music", "submit"}}

TurnBusy == TurnOf(UserMessages, BusyResponses, MaxBusyRequests)

UploadBusy == UploadUpTo(MaxBusyRequests)

NextBusy == TurnBusy \/ UploadBusy

SpecBusy == Init /\ [][NextBusy]_vars

-----------------------------------------------------------------------------
(* A conversation that goes on after a campaign was created: the reply to a
   created campaign ends with: Create another? Type "new campaign"! *)

NewCampaign == "new campaign"

\* the classifier's answers of this conversation: a whole campaign to
\* validate or to submit, and answers that carry no field (no JSON, a
\* failed call, no object, or an object with empty, null or absent data)
AgainResponses ==
    BusyResponses
    \cup {r \in LLMResponses :
            \/ r.kind # "object"
            \/ r.action = "collect_name" /\ NumSet(r.data) = 0}

TurnAgain == TurnOf({NewCampaign}, AgainResponses, MaxRequests)

NextAgain == TurnAgain \/ Upload \/ Restart

SpecAgain == Init /\ [][NextAgain]_vars

-----------------------------------------------------------------------------
(* A conversation in which the classifier extracts fields, with or without
   asking for the final review, v_in holding the data
   _update_state_from_data was last called on *)

\* the data of this conversation: any mix of absent, empty, good and bad
\* values
MergeData ==
    [shape : {"dict"}, campaign_name : {None, "", "Summer Sale", "Hi"},
     objective : {None, "Traffic", "Conversions"}, ad_text : {None, "Get 50% off!"},
     cta : {None, "Shop Now"}, music_id : {None, "MUS_12345"}]

\* the classifier extracts any of the data, and asks for the final review
\* with a name, an ad text and a CTA, with or without an objective
MergeResponses ==
    {[kind |-> "object", message |-> LLMMessage, action |-> "collect_name",
      data |-> d] : d \in MergeData}
    \cup {[kind |-> "object", message |-> LLMMessage, action |-> "finalize",
           data |-> d] :
            d \in {e \in MergeData : /\ e.campaign_name = "Summer Sale"
                                     /\ e.ad_text # None /\ e.cta # None
                                     /\ e.music_id = None}}

TurnMerging ==
    /\ Len(conversation_history) + 2 <= MaxHistory
    /\ \E resp \in MergeResponses :
          /\ TurnWith("hello", resp)
          /\ v_in' = FieldsOf(resp.data)
    /\ UNCHANGED <<now, mock_mode, v_out>>

NextMerge == TurnMerging \/ Upload \/ Restart

SpecMerge == Init /\ [][NextMerge]_vars

-----------------------------------------------------------------------------
(* The mock Ads API alone: calls of its three operations, at any time and in
   any order, on one TikTokAPI object *)

\* requests the mock API lets pass, and requests it counts, before the calls
\* stop
MaxPortCalls == 12
MaxPortCount == 12

\* ids asked of validate_music: one of the library, and three that are not
PortMusicIds == {"MUS_12345", "MUS_00000", "invalid_music_id", ""}
PortPayload ==
    [campaign_name |-> "Summer Sale", objective |-> "Traffic",
     ad_text |-> "Get 50% off!", cta |-> "Shop Now", music_id |-> None]

\* TikTokAPI(mock_mode=True) at the start of the clock
InitP ==
    /\ Init
    /\ mock_mode = TRUE

\* what one call of an operation of the mock API came to: TikTokAPIError out
\* of _check_rate_limit, or the response, with the explanation
\* interpret_api_error gives of it
PortSeen(op, id, payload, rl, response) ==
    IF rl.raised
    THEN [Idle EXCEPT !.op = op, !.raised = "TikTokAPIError",
                      !.calls = <<Call(op, id, payload, "rate_limit_exceeded",
                                       RateLimitMessage, RateLimitSuggestion)>>]
    ELSE [Idle EXCEPT !.op = op, !.reply = interpret_api_error(response),
                      !.calls = <<Call(op, id, payload,
                                       IF response.success THEN "ok"
                                       ELSE response.error_code,
                                       response.error_message,
                                       response.suggestion)>>]

\* the counters of the API and the record of the call after one call
AfterPortCall(rl, seen) ==
    /\ request_count' = rl.request_count
    /\ last_request_time' = rl.last_request_time
    /\ last' = seen
    /\ accepted_at' = accepted_at \o PassedAt(seen.calls, TRUE, now)
    /\ UNCHANGED <<agentVars, now, mock_mode, validated, created, v_in, v_out>>

PortReady == Len(accepted_at) < MaxPortCalls /\ request_count < MaxPortCount

\* TikTokAPI.validate_music(id)
PortValidateMusic ==
    /\ PortReady
    /\ \E id \in PortMusicIds, roll \in ValidateRolls :
          AfterPortCall(CheckRateLimit(request_count, last_request_time, now),
                        PortSeen("validate_music", id, NoPayload,
                                 CheckRateLimit(request_count, last_request_time, now),
                                 MockValidateMusic(id, roll)))

\* TikTokAPI.simulate_music_upload(file_name)
PortMusicUpload ==
    /\ PortReady
    /\ \E file_name \in FileNames, roll \in UploadRolls,
          n \in NewIds(CUSTOM_ID_MIN) :
          AfterPortCall(CheckRateLimit(request_count, last_request_time, now),
                        PortSeen("upload_music", None, NoPayload,
                                 CheckRateLimit(request_count, last_request_time, now),
                                 MockMusicUpload(file_name, roll, n)))

\* TikTokAPI.submit_campaign(campaign_data)
PortSubmitCampaign ==
    /\ PortReady
    /\ \E roll \in SubmitRolls, n \in NewIds(CAMPAIGN_ID_MIN) :
          AfterPortCall(CheckRateLimit(request_count, last_request_time, now),
                        PortSeen("create_campaign", None, PortPayload,
                                 CheckRateLimit(request_count, last_request_time, now),
                                 MockSubmitCampaign(PortPayload, roll, n)))

NextP == PortValidateMusic \/ PortMusicUpload \/ PortSubmitCampaign \/ Tick

SpecP == InitP /\ [][NextP]_vars

-----------------------------------------------------------------------------
(* The validators alone: every call of one on arguments drawn from the sets
   below *)

\* blanks around a name, and letters in it
MaxPad == 1
MaxNameLen == 3
\* how far around the limit the lengths of the ad texts go
Slack == 1

Padded(body) ==
    {Rep(" ", l) \o body \o Rep(" ", r) : l \in 0..MaxPad, r \in 0..MaxPad}

VNames ==
    {None, "Hi", "Summer Sale"}
    \cup UNION {Padded(Rep("a", k)) : k \in 0..MaxNameLen}
VObjectives == {None, "", "Traffic", "Conversions", "traffic", "Sales"}
VAdTexts ==
    {None, "", " ", "Get 50% off!", " " \o Rep("a", AD_TEXT_MAX)}
    \cup {Rep(" ", AD_TEXT_MAX), Rep(" ", AD_TEXT_MAX + 1)}
    \cup {Rep("a", k) : k \in (AD_TEXT_MAX - Slack)..(AD_TEXT_MAX + Slack)}
VCtas == {None, "", " ", "Shop Now"}
VMusicIds == {None, "", "MUS_12345", "MUS_00000"}

InitV ==
    /\ stage = Fresh.stage
    /\ campaign_name = Fresh.campaign_name
    /\ objective = Fresh.objective
    /\ ad_text = Fresh.ad_text
    /\ cta = Fresh.cta
    /\ music_id = Fresh.music_id
    /\ conversation_history = Fresh.conversation_history
    /\ request_count = Fresh.request_count
    /\ last_request_time = Fresh.last_request_time
    /\ now = StartTime
    /\ mock_mode = TRUE
    /\ last = Idle
    /\ validated = {}
    /\ created = FALSE
    /\ accepted_at = <<>>
    /\ v_in \in [campaign_name : VNames, objective : VObjectives,
                 ad_text : VAdTexts, cta : VCtas, music_id : VMusicIds]
    /\ v_out = NoCall

\* what a call of `fn` gave back: the pair (is_valid, msg) of a field
\* validator, the pair (is_valid, errors) of the aggregator, or the payload
\* built by AdCampaignData with the names of the fields it rejected
Returned(fn, r) ==
    [fn |-> fn, is_valid |-> r.is_valid, msg |-> r.msg, errors |-> <<>>,
     value |-> NoPayload]

Constructed(campaign, errs) ==
    [fn |-> "AdCampaignData", is_valid |-> campaign.ok, msg |-> campaign.error,
     errors |-> [i \in 1..Len(errs) |-> errs[i][1]],
     value |-> campaign.payload]

ValidatorFrame ==
    UNCHANGED <<agentVars, apiVars, now, mock_mode, last, validated, created,
                accepted_at, v_in>>

CallCampaignName ==
    /\ v_out' = Returned("validate_campaign_name",
                         validate_campaign_name(v_in.campaign_name))
    /\ ValidatorFrame

CallObjective ==
    /\ v_out' = Returned("validate_objective",
                         validate_objective(v_in.objective))
    /\ ValidatorFrame

CallAdText ==
    /\ v_out' = Returned("validate_ad_text", validate_ad_text(v_in.ad_text))
    /\ ValidatorFrame

CallCta ==
    /\ v_out' = Returned("validate_cta", validate_cta(v_in.cta))
    /\ ValidatorFrame

CallAdCampaignData ==
    /\ v_out' = Constructed(AdCampaignData(v_in.campaign_name, v_in.objective,
                                           v_in.ad_text, v_in.cta,
                                           v_in.music_id),
                            FieldErrors(v_in.campaign_name, v_in.objective,
                                        v_in.ad_text, v_in.cta, v_in.music_id))
    /\ ValidatorFrame

CallMusicForObjective ==
    /\ v_out' = Returned("validate_music_for_objective",
                         validate_music_for_objective(v_in.objective, v_in.music_id))
    /\ UNCHANGED <<agentVars, apiVars, now, mock_mode, last, validated, created,
                   accepted_at, v_in>>

CallCompleteCampaign ==
    /\ LET r == validate_complete_campaign(v_in.campaign_name, v_in.objective,
                                           v_in.ad_text, v_in.cta, v_in.music_id)
       IN  v_out' = [fn |-> "validate_complete_campaign", is_valid |-> r.is_valid,
                     msg |-> "", errors |-> r.errors, value |-> NoPayload]
    /\ UNCHANGED <<agentVars, apiVars, now, mock_mode, last, validated, created,
                   accepted_at, v_in>>

NextV ==
    \/ CallMusicForObjective
    \/ CallCompleteCampaign
    \/ CallCampaignName
    \/ CallObjective
    \/ CallAdText
    \/ CallCta
    \/ CallAdCampaignData

SpecV == InitV /\ [][NextV]_vars

-----------------------------------------------------------------------------
(* Claims *)

\* C1: for objective Traffic or Conversions and any music_id (absent, empty
\* or not), validate_music_for_objective returns invalid exactly when the
\* objective is Conversions and no music_id is present, and then its message
\* contains "REQUIRED"; in every other case it returns valid.
C1_MusicForObjective ==
    (v_out.fn = "validate_music_for_objective"
        /\ v_in.objective \in {"Traffic", "Conversions"})
    => /\ v_out.is_valid =
            ~(v_in.objective = "Conversions" /\ v_in.music_id \in {None, ""})
       /\ (~v_out.is_valid => Has(v_out.msg, "REQUIRED"))

C1_Witness ==
    /\ v_out.fn = "validate_music_for_objective"
    /\ v_in.objective = "Conversions"
    /\ v_in.music_id = ""
    /\ ~v_out.is_valid
    /\ Has(v_out.msg, "REQUIRED")

\* the five checks of the aggregator on the arguments, in field order
ChecksOf(a) ==
    <<validate_campaign_name(a.campaign_name), validate_objective(a.objective),
      validate_ad_text(a.ad_text), validate_cta(a.cta),
      validate_music_for_objective(a.objective, a.music_id)>>

FailingOf(a) == SelectSeq(ChecksOf(a), LAMBDA r : ~r.is_valid)

\* C6: validate_complete_campaign never short-circuits: its error list holds
\* exactly one message per failing check among name, objective, ad text, CTA
\* and music requirement, in that order, and none for a passing check; on
\* ("Hi", "Conversions", "", "", None) the list has at least 4 entries.
C6_NeverShortCircuits ==
    v_out.fn = "validate_complete_campaign"
    => /\ Len(v_out.errors) = Len(FailingOf(v_in))
       /\ \A i \in 1..Len(v_out.errors) : v_out.errors[i] = FailingOf(v_in)[i].msg
       /\ (v_in = [campaign_name |-> "Hi", objective |-> "Conversions",
                   ad_text |-> "", cta |-> "", music_id |-> None]
            => Len(v_out.errors) >= 4)

C6_Witness ==
    /\ v_out.fn = "validate_complete_campaign"
    /\ v_in = [campaign_name |-> "Hi", objective |-> "Conversions",
               ad_text |-> "", cta |-> "", music_id |-> None]
    /\ Len(v_out.errors) = 4
    /\ Has(v_out.errors[1], "Campaign name")
    /\ Has(v_out.errors[4], "REQUIRED")

\* C7: validate_complete_campaign returns is_valid = true, with an empty
\* error list, if and only if the four field validators and the music check
\* all pass; with valid name, ad text and CTA a campaign is valid for Traffic
\* without music and for Conversions with a music_id, and invalid, with a
\* music-required message in the list, for Conversions without music.
C7_ValidIffAllPass ==
    v_out.fn = "validate_complete_campaign"
    => LET checks == ChecksOf(v_in)
           fieldsOk == checks[1].is_valid /\ checks[3].is_valid /\ checks[4].is_valid
           noMusic == v_in.music_id \in {None, ""}
       IN  /\ v_out.is_valid = (\A i \in 1..5 : checks[i].is_valid)
           /\ v_out.is_valid = (v_out.errors = <<>>)
           /\ (fieldsOk /\ v_in.objective = "Traffic" /\ noMusic => v_out.is_valid)
           /\ (fieldsOk /\ v_in.objective = "Conversions" /\ ~noMusic
                 => v_out.is_valid)
           /\ (fieldsOk /\ v_in.objective = "Conversions" /\ noMusic
                 => /\ ~v_out.is_valid
                    /\ \E i \in 1..Len(v_out.errors) :
                          Has(v_out.errors[i], "Music is REQUIRED"))

C7_Witness ==
    /\ v_out.fn = "validate_complete_campaign"
    /\ v_in = [campaign_name |-> "Summer Sale", objective |-> "Conversions",
               ad_text |-> "Get 50% off!", cta |-> "Shop Now", music_id |-> None]
    /\ ~v_out.is_valid
    /\ Len(v_out.errors) = 1

\* the last operation was a turn of process_message that ran `handler`
TurnRan(handler) == last.op = "process_message" /\ last.handler = handler

\* the create-campaign calls of the last operation
CreateCalls ==
    {last.calls[i] : i \in {j \in 1..Len(last.calls) :
                                last.calls[j].op = "create_campaign"}}

CurrentFields ==
    [campaign_name |-> campaign_name, objective |-> objective,
     ad_text |-> ad_text, cta |-> cta, music_id |-> music_id]

\* a turn of process_message is the only step that lengthens the history
TurnStep == Len(conversation_history') > Len(conversation_history)

\* the reply of the last turn is the last entry of the history
ReplyInHistory ==
    /\ Len(conversation_history) > 0
    /\ conversation_history[Len(conversation_history)] =
          Entry("assistant", last.reply)

\* C2: whenever create-campaign is invoked with a non-empty music_id, that
\* id was earlier in the conversation accepted by a validate_music call or
\* returned by an upload; an id whose validation failed, or that was never
\* validated, is never submitted.
C2_SubmittedMusicWasValidated ==
    \A c \in CreateCalls : ~Falsy(c.music_id) => c.music_id \in validated

\* what the strict payload demands of the fields it is built from
C3_Submittable(f) ==
    /\ f.campaign_name # None /\ Len(Strip(f.campaign_name)) >= 3
    /\ f.objective \in {"Traffic", "Conversions"}
    /\ f.ad_text \notin {None, ""} /\ Len(f.ad_text) <= 100
    /\ (f.objective = "Conversions" => f.music_id \notin {None, ""})

\* C3: on a submit the strict payload is built before any API call, and
\* create-campaign is invoked only with a trimmed name of at least 3
\* characters, an objective Traffic or Conversions, a non-empty ad text of at
\* most 100 characters and, for Conversions, a music_id; otherwise the turn
\* returns a validation-error message, calls nothing and leaves the stage.
C3_StrictPayloadGuardsCreate ==
    TurnRan("submit")
    => /\ \A c \in CreateCalls :
            /\ C3_Submittable(last.merged)
            /\ C3_Submittable(c.payload)
            /\ c.payload.objective = last.merged.objective
            /\ c.payload.music_id = last.merged.music_id
       /\ (~C3_Submittable(last.merged)
            => /\ last.calls = <<>>
               /\ last.raised = ""
               /\ Has(last.reply, "Validation error")
               /\ stage = last.before
               /\ ReplyInHistory)

C3_Witness ==
    /\ TurnRan("submit")
    /\ \E c \in CreateCalls :
          c.payload.objective = "Conversions" /\ c.payload.music_id = "MUS_12345"
    /\ last.merged.campaign_name = "Summer Sale"

\* C4: when create-campaign returns a failure on a submit, with the mock
\* backend as with the real one, the stage does not become COMPLETE (it
\* stays what it was) and the reply returned and appended to the history is a
\* non-empty message that reports the error's explanation and suggestion.
C4_FailedCreateIsReported ==
    \A c \in CreateCalls :
        (TurnRan("submit") /\ c.result \notin {"ok", "rate_limit_exceeded"})
        => /\ stage # COMPLETE
           /\ stage = last.before
           /\ last.raised = ""
           /\ last.reply \notin {None, ""}
           /\ ReplyInHistory
           /\ Has(last.reply, c.message)
           /\ Has(last.reply, c.suggestion)

\* C5: the stage becomes COMPLETE exactly on a successful submission: after
\* a submit whose create-campaign call succeeded the stage is COMPLETE, a
\* stage COMPLETE means a create-campaign call succeeded earlier in the
\* conversation, and no other operation sets COMPLETE.
C5_CompleteIffCreated ==
    /\ (TurnRan("submit") /\ (\E c \in CreateCalls : c.result = "ok")
          => stage = COMPLETE)
    /\ (stage = COMPLETE => created)
    /\ (stage = COMPLETE /\ last.before # COMPLETE
          => TurnRan("submit") /\ (\E c \in CreateCalls : c.result = "ok"))

C5_Witness ==
    /\ stage = COMPLETE
    /\ created
    /\ TurnRan("submit")
    /\ last.before = GREETING

\* the verdict of the aggregator on the state as _handle_finalization
\* passes it
C8_Verdict ==
    validate_complete_campaign(
        OrElse(campaign_name, ""), OrElse(objective, "Traffic"),
        OrElse(ad_text, ""), OrElse(cta, ""), music_id)

\* C8: on a finalize for which the aggregator reports the state invalid, the
\* reply lists every error message the aggregator collected, the stage is
\* not advanced and the handler changes no campaign field; the campaign
\* summary is shown only when the aggregator reports the state valid.
C8_FinalizeInvalid ==
    TurnRan("finalize")
    => /\ last.raised = ""
       /\ CurrentFields = last.merged
       /\ (~C8_Verdict.is_valid
            => /\ \A i \in 1..Len(C8_Verdict.errors) :
                     Has(last.reply, C8_Verdict.errors[i])
               /\ stage = last.before
               /\ ~Has(last.reply, "Campaign Summary"))
       /\ (Has(last.reply, "Campaign Summary") => C8_Verdict.is_valid)

C8_Witness ==
    /\ TurnRan("finalize")
    /\ Len(C8_Verdict.errors) >= 2
    /\ Has(last.reply, "Cannot proceed")
    /\ objective = "Conversions"

\* the state a turn leaves behind when the classifier's output was no JSON
C9_AfterNonJson ==
    (last.op = "process_message" /\ last.llm = "non_json")
    => /\ last.action = "error"
       /\ last.handler = "none"
       /\ last.calls = <<>>
       /\ last.raised = ""
       /\ Has(last.reply, "rephrase")
       /\ ReplyInHistory
       /\ stage = last.before
       /\ CurrentFields = last.merged

\* C9: when the classifier's output is not parseable JSON the turn is
\* treated as action "error": the reply asks the user to rephrase, none of
\* the validate_music, finalize and submit handlers runs, no Ads API call is
\* made, and the campaign fields and the stage are as before the turn.
C9_NonJsonIsRetry ==
    /\ []C9_AfterNonJson
    /\ [][(TurnStep /\ last'.llm = "non_json")
            => /\ UNCHANGED fieldVars
               /\ stage' = stage
               /\ UNCHANGED apiVars]_vars

C9_Witness ==
    /\ last.op = "process_message"
    /\ last.llm = "non_json"
    /\ campaign_name = "Summer Sale"
    /\ objective = "Conversions"
    /\ Len(conversation_history) = 4

\* C10: for every classifier output (text that is no JSON, JSON that is no
\* object, an object whose data is null or missing) and every outcome of an
\* Ads API call, process_message returns a message string and never raises.
C10_NeverRaises ==
    last.op = "process_message"
    => /\ last.raised = ""
       /\ last.reply # None
       /\ ReplyInHistory

\* the requests the mock API let pass in the 60 seconds that start at time t
AcceptedIn(t) ==
    Len(SelectSeq(accepted_at, LAMBDA u : t <= u /\ u < t + RATE_WINDOW))

\* C11: the Ads API accepts at most 10 requests in any rolling window of 60
\* seconds: of the calls of validate_music, upload and submit that fall in
\* one such window at most 10 are accepted, every further one is rejected
\* with rate_limit_exceeded.
C11_AtMostTenPerWindow ==
    \A i \in 1..Len(accepted_at) : AcceptedIn(accepted_at[i]) <= RATE_LIMIT

\* the Ads API calls of the last operation
LastCalls == {last.calls[i] : i \in 1..Len(last.calls)}

\* C12: when the Ads API rejects a call with rate_limit_exceeded during the
\* validate-music, upload or submit handler, the handler returns the
\* rate-limit explanation as for any API failure, the turn completes with
\* that reply appended to the history, and the campaign fields and the stage
\* are unchanged.
C12_RateLimitIsReported ==
    \A c \in LastCalls :
        c.result = "rate_limit_exceeded"
        => /\ last.raised = ""
           /\ Has(last.reply, "Too Many Requests")
           /\ Has(last.reply, c.suggestion)
           /\ (last.op = "process_message" => ReplyInHistory)
           /\ stage = last.before
           /\ CurrentFields = last.merged

\* C13: for every music id that is not registered in the music library,
\* validate_music (when the rate-limit check lets the call through) returns a
\* failure result with code invalid_music_id, and the explanation of that
\* failure does not contain the raw code string "invalid_music_id".
C13_UnregisteredIsInvalid ==
    \A c \in LastCalls :
        (/\ c.op = "validate_music"
         /\ c.music_id \notin VALID_MUSIC_IDS
         /\ c.result # "rate_limit_exceeded")
        => /\ c.result = "invalid_music_id"
           /\ last.raised = ""
           /\ last.reply # None
           /\ Has(last.reply, c.suggestion)
           /\ ~Has(last.reply, "invalid_music_id")

\* validate_music answered a call for an id that is not in the library, the
\* id being the very string of the code
C13_Witness ==
    \E c \in LastCalls :
        /\ c.op = "validate_music"
        /\ c.music_id = "invalid_music_id"
        /\ c.result = "invalid_music_id"

\* C14: every error result an Ads API operation returns (validate_music,
\* upload or create-campaign, mock or real backend) is translated to a fixed
\* explanation together with a suggested next action, and the text shown to
\* the user never contains the raw error code.
C14_ErrorsAreExplained ==
    \A c \in LastCalls :
        c.result \notin {"ok", "rate_limit_exceeded"}
        => /\ last.raised = ""
           /\ last.reply # None
           /\ Has(last.reply, c.suggestion)
           /\ ~Has(last.reply, c.result)

\* the user's line of the last turn
LastUserMessage ==
    LET said == SelectSeq(conversation_history, LAMBDA e : e.role = "user")
    IN  IF said = <<>> THEN None ELSE said[Len(said)].content

\* C15: after a successful submission (stage COMPLETE), creating a new
\* campaign starts from a fresh state: when the user types "new campaign"
\* and the classifier takes no field from that line, every campaign field is
\* unset and the stage is back at GREETING.
C15_NewCampaignIsFresh ==
    (/\ last.op = "process_message"
     /\ last.before = COMPLETE
     /\ LastUserMessage = NewCampaign
     /\ last.action \in {"collect_name", "error"})
    => /\ CurrentFields = NoPayload
       /\ stage = GREETING

\* the name the validators were called on is absent or shorter than
\* NAME_MIN once trimmed
NameTooShort ==
    \/ v_in.campaign_name = None
    \/ Len(Strip(v_in.campaign_name)) < NAME_MIN

\* AdCampaignData rejected the field campaign_name
NameRejected == \E i \in 1..Len(v_out.errors) : v_out.errors[i] = "campaign_name"

\* C16: for every name, validate_campaign_name returns invalid when the name
\* is absent or its trimmed length is below 3 and valid when its trimmed
\* length is at least 3 (the field validator and the validator of the
\* payload's campaign_name alike); for a valid name the value the payload
\* validator returns is the trimmed string.
C16_NameByTrimmedLength ==
    /\ v_out.fn = "validate_campaign_name" => (v_out.is_valid <=> ~NameTooShort)
    /\ v_out.fn = "AdCampaignData"
       => /\ NameRejected <=> NameTooShort
          /\ v_out.is_valid
             => v_out.value.campaign_name = Strip(v_in.campaign_name)

\* a name with a blank before and after it went into a payload
C16_Witness ==
    /\ v_out.fn = "AdCampaignData"
    /\ v_out.is_valid
    /\ v_in.campaign_name = " aaa "
    /\ v_out.value.campaign_name = "aaa"

\* the overage the too-long message reports for a text
Overage(text) ==
    "Please shorten by " \o ToString(Len(text) - AD_TEXT_MAX) \o " characters"

\* the ad text is absent, empty or made of blanks only
AdTextBlank == v_in.ad_text = None \/ Strip(v_in.ad_text) = ""

\* the claim as the specification words it: the length alone decides
C17_ByLengthAlone ==
    v_out.fn = "validate_ad_text"
    => /\ (v_in.ad_text # None /\ Len(v_in.ad_text) > AD_TEXT_MAX)
          => ~v_out.is_valid /\ Has(v_out.msg, Overage(v_in.ad_text))
       /\ (v_in.ad_text = None \/ v_in.ad_text = "") => ~v_out.is_valid
       /\ (v_in.ad_text # None /\ Len(v_in.ad_text) = AD_TEXT_MAX)
          => v_out.is_valid

\* C17: for every ad_text that is not blank and whose length exceeds 100
\* characters, validate_ad_text returns invalid and its message reports the
\* exact overage len(text) - 100; absent, empty or whitespace-only text is
\* invalid whatever its length, and non-blank text of length exactly 100 is
\* accepted.
C17_OverageUnlessBlank ==
    v_out.fn = "validate_ad_text"
    => /\ AdTextBlank => ~v_out.is_valid /\ ~Has(v_out.msg, "shorten by")
       /\ (~AdTextBlank /\ Len(v_in.ad_text) > AD_TEXT_MAX)
          => ~v_out.is_valid /\ Has(v_out.msg, Overage(v_in.ad_text))
       /\ (~AdTextBlank /\ Len(v_in.ad_text) <= AD_TEXT_MAX) => v_out.is_valid

\* a text one character over the limit was refused with its overage
C17_Witness ==
    /\ v_out.fn = "validate_ad_text"
    /\ v_in.ad_text = Rep("a", AD_TEXT_MAX + 1)
    /\ ~v_out.is_valid
    /\ Has(v_out.msg, "Please shorten by 1 characters")

\* the claim as the specification words it: only an empty or absent CTA fails
C18_OnlyEmptyFails ==
    v_out.fn = "validate_cta"
    => (~v_out.is_valid <=> v_in.cta \in {None, ""})

\* C18: validate_cta returns invalid if and only if the CTA is absent, empty
\* or made of whitespace only; every string with a non-blank character
\* passes.
C18_BlankFails ==
    v_out.fn = "validate_cta"
    => (~v_out.is_valid <=> (v_in.cta = None \/ Strip(v_in.cta) = ""))

\* a CTA of one blank was refused
C18_Witness ==
    /\ v_out.fn = "validate_cta"
    /\ v_in.cta = " "
    /\ ~v_out.is_valid

\* C19: validate_objective returns valid exactly for the two strings
\* "Traffic" and "Conversions", compared case-sensitively, and invalid for
\* every other value (other casings, other words, empty or absent).
C19_ExactlyTwoObjectives ==
    v_out.fn = "validate_objective"
    => (v_out.is_valid <=> v_in.objective \in {"Traffic", "Conversions"})

\* the lower-case spelling of an objective was refused
C19_Witness ==
    /\ v_out.fn = "validate_objective"
    /\ v_in.objective = "traffic"
    /\ ~v_out.is_valid

\* C21: the music requirement is evaluated against the state as it is when
\* a finalize or a submit runs: if the objective is Conversions and music_id
\* is unset at that time, the finalize reply reports the music-required
\* error, and a submit makes no create-campaign call, even if an earlier
\* finalize succeeded while the objective was Traffic.
C21_MusicJudgedAtUse ==
    (/\ last.op = "process_message"
     /\ last.merged.objective = "Conversions"
     /\ Falsy(last.merged.music_id))
    => /\ TurnRan("finalize")
          => /\ last.raised = ""
             /\ Has(last.reply, "Music is REQUIRED for Conversions campaigns")
             /\ ~Has(last.reply, "Campaign Summary")
       /\ TurnRan("submit") => CreateCalls = {} /\ stage = last.before

\* a finalize showed the summary of a Traffic campaign without music, and
\* the next finalize, the objective now Conversions, reports the missing music
C21_Witness ==
    /\ Len(conversation_history) = 4
    /\ Has(conversation_history[2].content, "Campaign Summary")
    /\ Has(conversation_history[2].content, "**Objective:** Traffic")
    /\ TurnRan("finalize")
    /\ objective = "Conversions"
    /\ music_id = None
    /\ Has(last.reply, "Music is REQUIRED for Conversions campaigns")

\* C22: the state merge is last-write-wins per field: after a turn whose
\* classifier data supplies a (non-empty) value for a campaign field, that
\* field holds the supplied value whatever it held before, with no validation
\* at set time, and every field for which no value was supplied keeps its
\* previous value; a music_id that was set stays attached when the objective
\* is later changed to Traffic.
C22_LastWriteWins ==
    [][TurnStep
       => \A f \in DataFields :
             CurrentFields'[f] = IF v_in'[f] \in {None, ""}
                                 THEN CurrentFields[f]
                                 ELSE v_in'[f]]_vars

\* the objective was changed to Traffic by a turn that supplied no music_id,
\* over a name replaced by one too short to be valid, and the music_id of an
\* earlier turn is still there
C22_Witness ==
    /\ Len(conversation_history) = 4
    /\ v_in.objective = "Traffic" /\ objective = "Traffic"
    /\ v_in.music_id = None /\ music_id = "MUS_12345"
    /\ v_in.campaign_name = "Hi" /\ campaign_name = "Hi"

\* an id minted by an upload
IsCustom(id) == id # None /\ Prefix(id, 11) = "MUS_CUSTOM_"

C24_NoMusicOnlyForTraffic ==
    \A c \in LastCalls :
        (/\ TurnRan("validate_music")
         /\ last.raised = ""
         /\ c.op = "validate_music"
         /\ c.result \notin {"ok", "rate_limit_exceeded"})
        => /\ Has(last.reply, "Try a different Music ID")
           /\ Has(last.reply, "Upload custom music")
           /\ (Has(last.reply, "Proceed without music")
                 => last.merged.objective = "Traffic")

\* C25: the stage follows the order GREETING, collecting stages, optionally
\* VALIDATING_MUSIC, FINALIZING, SUBMITTING, COMPLETE: a finalize on which the
\* aggregator reports valid (the summary is shown) moves the stage to
\* FINALIZING, and COMPLETE is entered only from SUBMITTING, FINALIZING having
\* been entered before.
C25_StagesInOrder ==
    /\ (TurnRan("finalize") /\ Has(last.reply, "Campaign Summary"))
          => stage = FINALIZING
    /\ (stage = COMPLETE /\ last.before # COMPLETE) => last.before = SUBMITTING

\* C26: conversation_history is append-only and every process_message turn
\* appends exactly one user entry followed by exactly one assistant entry,
\* so the history always alternates user and assistant entries.
C26_HistoryAlternates ==
    /\ \A i \in 1..Len(conversation_history) :
          conversation_history[i].role =
              IF i % 2 = 1 THEN "user" ELSE "assistant"
    /\ last.op = "process_message"
          => /\ Len(conversation_history) % 2 = 0
             /\ ReplyInHistory

\* C27: every user-facing reply the orchestrator produces from a validator,
\* music-engine or Ads-API result, the reply to a custom music upload
\* included, is appended to conversation_history together with the user turn
\* that caused it, so the classifier context of the next turn contains it.
C27_EveryReplyInHistory ==
    (last.op \in {"process_message", "handle_music_upload"} /\ last.raised = "")
    => /\ Len(conversation_history) >= 2
       /\ conversation_history[Len(conversation_history) - 1].role = "user"
       /\ ReplyInHistory

\* a step of the mock API that is a call of one of its operations
PortCallStep ==
    /\ now' = now
    /\ request_count' # request_count \/ accepted_at' # accepted_at

\* C28: a rate-limit rejection is recoverable by retrying: whatever calls
\* came before, a call made at least 60 seconds after the start of the
\* current window is accepted and opens a new window (the counter back at 0,
\* the window starting at the time of the call), and a call is rejected only
\* within 60 seconds of the start of the current window.
C28_RetryAfterWindow ==
    [][PortCallStep
       => /\ now - last_request_time >= RATE_WINDOW
             => /\ last'.raised = ""
                /\ request_count' = 0
                /\ last_request_time' = now
                /\ accepted_at' = Append(accepted_at, now)
          /\ last'.raised # "" => now - last_request_time < RATE_WINDOW]_vars

\* the first window took all the calls it accepts, and a call a window's
\* length later was accepted and opened a new one
C28_Witness ==
    /\ Len(SelectSeq(accepted_at, LAMBDA u : u = StartTime)) = RATE_LIMIT + 1
    /\ last.raised = ""
    /\ last_request_time >= StartTime + RATE_WINDOW
    /\ accepted_at[Len(accepted_at)] = last_request_time
    /\ request_count = 0

\* C29: a finalize shows the campaign summary only if campaign_name,
\* objective, ad_text and cta are all set in the state: whenever one of the
\* four is unset the finalize reports an error instead, so the summary shown
\* is never one with an unset objective.
C29_SummaryNeedsAllFields ==
    (TurnRan("finalize") /\ Has(last.reply, "Campaign Summary"))
    => /\ ~Falsy(last.merged.campaign_name)
       /\ ~Falsy(last.merged.objective)
       /\ ~Falsy(last.merged.ad_text)
       /\ ~Falsy(last.merged.cta)
       /\ ~Has(last.reply, "**Objective:** None")

\* C30: the strict payload model and the aggregator agree on every input:
\* for every combination of (campaign_name, objective, ad_text, cta,
\* music_id), constructing AdCampaignData succeeds if and only if
\* validate_complete_campaign returns valid, so every payload built has a
\* non-blank CTA.
C30_PayloadAgreesWithAggregator ==
    v_out.fn = "AdCampaignData"
    => /\ v_out.is_valid
          <=> validate_complete_campaign(v_in.campaign_name, v_in.objective,
                                         v_in.ad_text, v_in.cta,
                                         v_in.music_id).is_valid
       /\ v_out.is_valid => Strip(v_out.value.cta) # ""

====
